---- MODULE Spec2Model ----
(***************************************************************************)
(* create-favicon: the ICO encoder (ico.ts, sharpToIco and its helpers).   *)
(*                                                                         *)
(* A call of the encoder is modelled from the point where the raw RGBA     *)
(* surface {data, info} is available (the result of toBuffer) to the       *)
(* point where the promise is resolved with the container or rejected.     *)
(* Buffers are sequences of bytes; the byte the code addresses with the    *)
(* 0-based offset o is element o + 1 of the sequence.                      *)
(***************************************************************************)
EXTENDS Integers, Sequences, FiniteSets, TLC

\* the surface and the locals of the sharpToIco call that is executing, its
\* position pc and the buffer it returns
VARIABLES data, info, pc, header, offset, dir, bmpInfoHeader, dib, len, result

\* the sharpToIco calls made so far, each with its surface, its state and the
\* buffer its promise was resolved with, and the call that is executing
VARIABLES calls, running

\* a createFavicon call: its argument, its position fpc, the source buffer,
\* the metadata of the image, the html it returns and the error it throws;
\* around it the files of outputDir, the warnings delivered to the sink, the
\* kinds of input and output done, and what the world holds for sourceFile
VARIABLES options, fpc, source, image, html, error, files, warnings, ioDone, world

\* a run of the command line program: what cli.parse() makes of the command
\* line, the position cliPc, what console.log and console.error have printed,
\* and the exit status of the process
VARIABLES argv, cliPc, stdout, stderr, exitCode

icoVars == <<data, info, pc, header, offset, dir, bmpInfoHeader, dib, len, result>>

callVars == <<calls, running>>

favVars == <<options, fpc, source, image, html, error, files, warnings, ioDone, world>>

cliVars == <<argv, cliPc, stdout, stderr, exitCode>>

vars == <<icoVars, callVars, favVars, cliVars>>

(***************************************************************************)
(* Bounds of the model.                                                    *)
(***************************************************************************)
\* small surfaces have every width and height in 1..MaxDim and every
\* assignment of palette pixels
MaxDim == 2
\* a surface's byte buffer is up to MaxSlack bytes shorter or longer than
\* width * height * 4
MaxSlack == 1
\* the number of sharpToIco calls that overlap or follow each other
MaxCalls == 3

(***************************************************************************)
(* Program constants.                                                      *)
(***************************************************************************)
BITMAP_SIZE == 40

\* a directory entry that has grown by four bytes
DIRECTORY_SIZE_Grown == 16 + 4

DIRECTORY_SIZE == 16
HEADER_SIZE == 6

(***************************************************************************)
(* Node's Buffer, as far as the encoder uses it.  A buffer operation       *)
(* either yields a buffer or throws a RangeError (ERR_OUT_OF_RANGE); a     *)
(* throw is carried through the rest of the function that made the call.   *)
(***************************************************************************)
Ok(b) == [ok |-> TRUE, bytes |-> b]

RangeError == [ok |-> FALSE, bytes |-> <<>>]

\* Buffer.alloc(n): n zero bytes
alloc(n) == Ok([i \in 1..n |-> 0])

\* bits 8*k .. 8*k+7 of value (two's complement for a negative value)
ByteOf(value, k) ==
    IF k = 0 THEN value % 256
    ELSE IF k = 1 THEN (value \div 256) % 256
    ELSE IF k = 2 THEN (value \div 65536) % 256
    ELSE ((value \div 65536) \div 256) % 256

\* the bytes of value at offset .. offset + n - 1, least significant first
PutLE(b, value, off, n) ==
    [i \in 1..Len(b) |->
        IF i > off /\ i <= off + n THEN ByteOf(value, i - off - 1) ELSE b[i]]

\* a write that keeps the low byte of a value above 255 instead of throwing
writeUInt8Truncating(buf, value, off) ==
    IF ~buf.ok THEN buf
    ELSE IF off < 0 \/ off + 1 > Len(buf.bytes) THEN RangeError
    ELSE Ok(PutLE(buf.bytes, value % 256, off, 1))

writeUInt8(buf, value, off) ==
    IF ~buf.ok THEN buf
    ELSE IF value < 0 \/ value > 255 THEN RangeError
    ELSE IF off < 0 \/ off + 1 > Len(buf.bytes) THEN RangeError
    ELSE Ok(PutLE(buf.bytes, value, off, 1))

writeUInt16LE(buf, value, off) ==
    IF ~buf.ok THEN buf
    ELSE IF value < 0 \/ value > 65535 THEN RangeError
    ELSE IF off < 0 \/ off + 2 > Len(buf.bytes) THEN RangeError
    ELSE Ok(PutLE(buf.bytes, value, off, 2))

\* 0 <= value < 2^32, written without a number of more than 32 bits
writeUInt32LE(buf, value, off) ==
    IF ~buf.ok THEN buf
    ELSE IF value < 0 \/ (value \div 65536) > 65535 THEN RangeError
    ELSE IF off < 0 \/ off + 4 > Len(buf.bytes) THEN RangeError
    ELSE Ok(PutLE(buf.bytes, value, off, 4))

\* -2^31 <= value < 2^31
writeInt32LE(buf, value, off) ==
    IF ~buf.ok THEN buf
    ELSE IF (value \div 65536) < -32768 \/ (value \div 65536) > 32767 THEN RangeError
    ELSE IF off < 0 \/ off + 4 > Len(buf.bytes) THEN RangeError
    ELSE Ok(PutLE(buf.bytes, value, off, 4))

\* Buffer.concat(list, totalLength): the buffers of list one after the other,
\* cut or zero-filled to totalLength bytes
concat(list, totalLength) ==
    LET all == list[1] \o list[2] \o list[3] \o list[4]
    IN  [i \in 1..totalLength |-> IF i <= Len(all) THEN all[i] ELSE 0]

(***************************************************************************)
(* The segments of the container.                                          *)
(***************************************************************************)
\* the three fields written with writeUInt16BE
getHeaderBigEndian == Ok(<<0, 0, 0, 1, 0, 1>>)

getHeader ==
    LET b0 == alloc(HEADER_SIZE)
        b1 == writeUInt16LE(b0, 0, 0)
        b2 == writeUInt16LE(b1, 1, 2)
        b3 == writeUInt16LE(b2, 1, 4)
    IN  b3

\* the size of the image's data taken to be the pixel bytes alone
getDirPayloadOnly(inf, off) ==
    LET b0 == alloc(DIRECTORY_SIZE)
        size == inf.size
        b1 == writeUInt8(b0, inf.width, 0)
        b2 == writeUInt8(b1, inf.height, 1)
        b3 == writeUInt8(b2, 0, 2)
        b4 == writeUInt8(b3, 0, 3)
        b5 == writeUInt16LE(b4, 1, 4)
        b6 == writeUInt16LE(b5, 32, 6)
        b7 == writeUInt32LE(b6, size, 8)
        b8 == writeUInt32LE(b7, off, 12)
    IN  b8

getDir(inf, off) ==
    LET b0 == alloc(DIRECTORY_SIZE)
        size == inf.size + BITMAP_SIZE
        b1 == writeUInt8(b0, inf.width, 0)
        b2 == writeUInt8(b1, inf.height, 1)
        b3 == writeUInt8(b2, 0, 2)
        b4 == writeUInt8(b3, 0, 3)
        b5 == writeUInt16LE(b4, 1, 4)
        b6 == writeUInt16LE(b5, 32, 6)
        b7 == writeUInt32LE(b6, size, 8)
        b8 == writeUInt32LE(b7, off, 12)
    IN  b8

getBmpInfoHeader(inf) ==
    LET b0 == alloc(BITMAP_SIZE)
        height == 64
        width == 32
        bpp == 32
        b1 == writeUInt32LE(b0, BITMAP_SIZE, 0)
        b2 == writeInt32LE(b1, width, 4)
        b3 == writeInt32LE(b2, height, 8)
        b4 == writeUInt16LE(b3, 1, 12)
        b5 == writeUInt16LE(b4, bpp, 14)
        b6 == writeUInt32LE(b5, 0, 16)
        b7 == writeUInt32LE(b6, inf.size, 20)
        b8 == writeInt32LE(b7, 0, 24)
        b9 == writeInt32LE(b8, 0, 28)
        b10 == writeUInt32LE(b9, 0, 32)
        b11 == writeUInt32LE(b10, 0, 36)
    IN  b11

\* a loop body that copies the four bytes of a pixel in the order read
ChannelAsRead(k) == k

\* The channel of the input pixel that the loop body writes at byte k of the
\* output pixel: b, g, r, a are written at pos, pos + 1, pos + 2, pos + 3 and
\* were read at pos + 2, pos + 1, pos, pos + 3.
Channel(k) == IF k = 0 THEN 2 ELSE IF k = 2 THEN 0 ELSE k

\* a loop body that writes at row + col, the position it read
SourceRowTopDown(end, outRow) == outRow

\* The row offset the loop reads for the output row offset outRow: the body
\* run with row writes at end - row.
SourceRow(end, outRow) == end - outRow

\* rows laid out with a stride of cols + (4 - cols % 4) bytes: the padding of
\* a general bitmap row, which is 4 bytes too many for a row that is aligned
getDibPadded(dat, inf) ==
    LET bpp == 4
        cols == inf.width * bpp
        stride == cols + (4 - (cols % 4))
        rows == inf.height * cols
        end == rows - cols
        Rows == {row \in 0..(rows - 1) : row % cols = 0}
        Cols == {col \in 0..(cols - 1) : col % bpp = 0}
        readThrows(row, col) == row + col + 3 >= Len(dat)
        written(q) ==
            LET row == SourceRow(end, (q \div stride) * cols)
                col == ((q % stride) \div bpp) * bpp
            IN  IF q % stride < cols THEN dat[row + col + Channel(q % bpp) + 1] ELSE 0
    IN  IF \E row \in Rows, col \in Cols : readThrows(row, col)
        THEN RangeError
        ELSE Ok([p \in 1..(inf.height * stride) |-> written(p - 1)])

\* reads and writes that are not range-checked: a read past the end of data
\* gives 0 and a write past the end of buf is dropped
getDibUnchecked(dat, inf) ==
    LET bpp == 4
        cols == inf.width * bpp
        rows == inf.height * cols
        end == rows - cols
        written(q) ==
            LET row == SourceRow(end, (q \div cols) * cols)
                col == ((q % cols) \div bpp) * bpp
                at == row + col + Channel(q % bpp) + 1
            IN  IF at <= Len(dat) THEN dat[at] ELSE 0
    IN  Ok([p \in 1..inf.size |-> IF p - 1 < rows THEN written(p - 1) ELSE 0])

\* The two nested loops run their body once for every row in Rows and col in
\* Cols.  A body whose read of data or write to buf is out of range throws;
\* otherwise every byte below rows of buf is written by exactly one body and
\* the bytes from rows on keep the zero of Buffer.alloc.
getDib(dat, inf) ==
    LET bpp == 4
        cols == inf.width * bpp
        rows == inf.height * cols
        end == rows - cols
        Rows == {row \in 0..(rows - 1) : row % cols = 0}
        Cols == {col \in 0..(cols - 1) : col % bpp = 0}
        readThrows(row, col) == row + col + 3 >= Len(dat)
        writeThrows(row, col) == end - row + col + 3 >= inf.size
        written(q) ==
            LET row == SourceRow(end, (q \div cols) * cols)
                col == ((q % cols) \div bpp) * bpp
            IN  dat[row + col + Channel(q % bpp) + 1]
    IN  IF \E row \in Rows, col \in Cols : readThrows(row, col) \/ writeThrows(row, col)
        THEN RangeError
        ELSE Ok([p \in 1..inf.size |-> IF p - 1 < rows THEN written(p - 1) ELSE 0])

(***************************************************************************)
(* The surfaces a call is given.                                           *)
(***************************************************************************)
\* RGBA pixels: the pixels of the small surfaces, and the pixels a large
\* surface is filled with
SmallPalette == {<<10, 20, 30, 255>>, <<1, 2, 3, 4>>}

Palette == SmallPalette \cup {<<255, 0, 0, 255>>}

\* dimensions beside the small ones: the 32x32 surface createFavicon asks
\* for, the largest a directory entry can hold, and ones it cannot hold
LargeDims == {<<32, 32>>, <<4, 4>>, <<255, 1>>, <<1, 255>>, <<256, 1>>, <<1, 256>>, <<300, 2>>}

\* row-major, top to bottom, 4 bytes a pixel
Flatten(n, pixels) == [i \in 1..(n * 4) |-> pixels[(i - 1) \div 4][((i - 1) % 4) + 1]]

\* the first n bytes of bytes, filled up with the byte 170 when n is larger
Resize(bytes, n) == [i \in 1..n |-> IF i <= Len(bytes) THEN bytes[i] ELSE 170]

Lengths(n) == {m \in ((n - MaxSlack)..(n + MaxSlack)) \cup {3} : m >= 0}

SmallSurfaces ==
    UNION {{[width |-> w, height |-> h, bytes |-> Flatten(w * h, px)]
                : px \in [0..(w * h - 1) -> SmallPalette]}
            : w \in 1..MaxDim, h \in 1..MaxDim}

LargeSurfaces ==
    UNION {{[width |-> d[1], height |-> d[2],
             bytes |-> Flatten(d[1] * d[2], [i \in 0..(d[1] * d[2] - 1) |-> p])]
                : p \in Palette}
           \cup {[width |-> d[1], height |-> d[2],
                  bytes |-> [i \in 1..(d[1] * d[2] * 4) |-> (i * 7) % 256]]}
            : d \in LargeDims}

Surfaces ==
    UNION {{[width |-> s.width, height |-> s.height, bytes |-> Resize(s.bytes, n)]
                : n \in Lengths(Len(s.bytes))}
            : s \in SmallSurfaces \cup LargeSurfaces}

(***************************************************************************)
(* sharpToIco                                                              *)
(***************************************************************************)
(***************************************************************************)
(* Values of createFavicon.  A string that the code takes apart or puts    *)
(* together is a sequence of pieces: single characters for a base path,    *)
(* whole literals for the text around it.                                  *)
(***************************************************************************)
NoImage == [format |-> "none", width |-> 0, height |-> 0]

NoOptions ==
    [given |-> FALSE,
     sourceFile |-> [kind |-> "undefined", name |-> <<>>],
     warn |-> [set |-> FALSE, value |-> "console.warn"],
     basePath |-> [set |-> FALSE, value |-> <<>>],
     overwrite |-> [set |-> FALSE, value |-> FALSE],
     manifest |-> [set |-> FALSE, value |-> FALSE]]

NoError == [message |-> "", detail |-> <<>>]

\* a path of outputDir that holds nothing
Absent == [kind |-> "absent", size |-> 0, doc |-> [icons |-> <<>>], src |-> NoImage]

FileNames ==
    {"icon-512.png", "icon-192.png", "apple-touch-icon.png", "favicon.ico",
     "manifest.webmanifest", "icon.svg"}

\* nothing to read, nothing to download, an empty outputDir
NoWorld ==
    [readable |-> FALSE, statusCode |-> 0, content |-> NoImage,
     outputDir |-> [n \in FileNames |-> Absent]]

\* the command line of a program that is not run
NoArgv ==
    [outcome |-> "none",
     sourceFile |-> <<>>,
     basePath |-> [set |-> FALSE, value |-> <<>>],
     overwrite |-> FALSE, noManifest |-> FALSE, noWarn |-> FALSE]

\* the command line program is not run
CliIdle ==
    /\ argv = NoArgv
    /\ cliPc = "idle"
    /\ stdout = <<>>
    /\ stderr = <<>>
    /\ exitCode = 0

\* createFavicon is not called
FavIdle ==
    /\ options = NoOptions
    /\ fpc = "idle"
    /\ source = NoImage
    /\ image = NoImage
    /\ html = <<>>
    /\ error = NoError
    /\ files = [n \in FileNames |-> Absent]
    /\ warnings = <<>>
    /\ ioDone = {}
    /\ world = NoWorld

CallIds == 1..MaxCalls

\* a call that has not been made
NoCall == [state |-> "idle", surface |-> [width |-> 0, height |-> 0, bytes |-> <<>>],
           result |-> <<>>]

\* no call has been made
CallsIdle ==
    /\ calls = [c \in CallIds |-> NoCall]
    /\ running = 0

\* a single call, at the point where toBuffer has given it {data, info}
Init ==
    /\ \E s \in Surfaces :
        /\ data = s.bytes
        /\ info = [width |-> s.width, height |-> s.height, size |-> Len(s.bytes)]
        /\ pc = "getHeader"
        /\ header = <<>>
        /\ offset = 0
        /\ dir = <<>>
        /\ bmpInfoHeader = <<>>
        /\ dib = <<>>
        /\ len = 0
        /\ result = <<>>
    /\ CallsIdle
    /\ FavIdle
    /\ CliIdle

\* an offset that lives outside the function: it is set by the first call
\* only and every call adds to it
GetHeaderOffsetKept ==
    /\ pc = "getHeader"
    /\ header' = getHeader.bytes
    /\ offset' = IF offset = 0 THEN Len(getHeader.bytes) + 16 ELSE offset
    /\ pc' = "getDir"
    /\ UNCHANGED <<data, info, dir, bmpInfoHeader, dib, len, result>>
    /\ UNCHANGED <<callVars, favVars, cliVars>>

\* const header = getHeader(); let offset = header.length + 16
GetHeader ==
    /\ pc = "getHeader"
    /\ header' = getHeader.bytes
    /\ offset' = Len(getHeader.bytes) + 16
    /\ pc' = "getDir"
    /\ UNCHANGED <<data, info, dir, bmpInfoHeader, dib, len, result>>
    /\ UNCHANGED <<callVars, favVars, cliVars>>

\* const dir = getDir(info, offset)
GetDir ==
    /\ pc = "getDir"
    /\ LET r == getDir(info, offset)
       IN  IF r.ok
           THEN dir' = r.bytes /\ pc' = "getBmpInfoHeader"
           ELSE dir' = dir /\ pc' = "rejected"
    /\ UNCHANGED <<data, info, header, offset, bmpInfoHeader, dib, len, result>>
    /\ UNCHANGED <<callVars, favVars, cliVars>>

\* const bmpInfoHeader = getBmpInfoHeader(info)
GetBmpInfoHeader ==
    /\ pc = "getBmpInfoHeader"
    /\ LET r == getBmpInfoHeader(info)
       IN  IF r.ok
           THEN bmpInfoHeader' = r.bytes /\ pc' = "getDib"
           ELSE bmpInfoHeader' = bmpInfoHeader /\ pc' = "rejected"
    /\ UNCHANGED <<data, info, header, offset, dir, dib, len, result>>
    /\ UNCHANGED <<callVars, favVars, cliVars>>

\* a throw of getDib that is caught, the segments built so far returned
GetDibPartialOnThrow ==
    /\ pc = "getDib"
    /\ LET r == getDib(data, info)
       IN  IF r.ok
           THEN dib' = r.bytes /\ pc' = "concat" /\ result' = result
           ELSE dib' = dib /\ pc' = "resolved"
                /\ result' = header \o dir \o bmpInfoHeader
    /\ UNCHANGED <<data, info, header, offset, dir, bmpInfoHeader, len>>
    /\ UNCHANGED <<callVars, favVars, cliVars>>

\* const dib = getDib(data, info)
GetDib ==
    /\ pc = "getDib"
    /\ LET r == getDib(data, info)
       IN  IF r.ok
           THEN dib' = r.bytes /\ pc' = "concat"
           ELSE dib' = dib /\ pc' = "rejected"
    /\ UNCHANGED <<data, info, header, offset, dir, bmpInfoHeader, len, result>>
    /\ UNCHANGED <<callVars, favVars, cliVars>>

\* const len = ...; offset += ...; return Buffer.concat([...], len)
Concat ==
    /\ pc = "concat"
    /\ len' = Len(header) + Len(dir) + Len(bmpInfoHeader) + Len(dib)
    /\ offset' = offset + Len(bmpInfoHeader) + Len(dib)
    /\ result' = concat(<<header, dir, bmpInfoHeader, dib>>,
                        Len(header) + Len(dir) + Len(bmpInfoHeader) + Len(dib))
    /\ pc' = "resolved"
    /\ UNCHANGED <<data, info, header, dir, bmpInfoHeader, dib>>
    /\ UNCHANGED <<callVars, favVars, cliVars>>

Next == GetHeader \/ GetDir \/ GetBmpInfoHeader \/ GetDib \/ Concat

Spec == Init /\ [][Next]_vars

(***************************************************************************)
(* Several sharpToIco calls.  A call runs up to its await of toBuffer when *)
(* it is made; the calls that wait are resumed one at a time, in any       *)
(* order, and a resumed call runs to its return or throw before another    *)
(* call is made or resumed.                                                *)
(***************************************************************************)
\* the function as a whole: the outcome of a call that is given {dat, inf}
sharpToIco(dat, inf) ==
    LET hdr == getHeader
        off == Len(hdr.bytes) + 16
        d == getDir(inf, off)
        bih == getBmpInfoHeader(inf)
        px == getDib(dat, inf)
    IN  IF d.ok /\ bih.ok /\ px.ok
        THEN [state |-> "resolved",
              result |-> concat(<<hdr.bytes, d.bytes, bih.bytes, px.bytes>>,
                                Len(hdr.bytes) + Len(d.bytes) + Len(bih.bytes) + Len(px.bytes))]
        ELSE [state |-> "rejected", result |-> <<>>]

\* the surfaces of the calls: a 1x1 surface, a 1x1 surface with a byte too
\* many, a 2x1 surface with a byte too few and a 2x2 surface
CallSurfaces ==
    {[width |-> 1, height |-> 1, bytes |-> <<10, 20, 30, 255>>],
     [width |-> 1, height |-> 1, bytes |-> <<1, 2, 3, 4, 170>>],
     [width |-> 2, height |-> 1, bytes |-> <<1, 2, 3, 4, 10, 20, 30>>],
     [width |-> 2, height |-> 2,
      bytes |-> <<10, 20, 30, 255, 1, 2, 3, 4, 1, 2, 3, 4, 10, 20, 30, 255>>]}

\* the surface of the call made last, whichever call asks
SurfaceOfLatest(c) ==
    LET made == {k \in CallIds : calls[k].state # "idle"}
    IN  calls[CHOOSE k \in made : \A j \in made : j <= k].surface

\* img, the argument of call c
SurfaceOf(c) == calls[c].surface

InitCalls ==
    /\ data = <<>>
    /\ info = [width |-> 0, height |-> 0, size |-> 0]
    /\ pc = "idle"
    /\ header = <<>>
    /\ offset = 0
    /\ dir = <<>>
    /\ bmpInfoHeader = <<>>
    /\ dib = <<>>
    /\ len = 0
    /\ result = <<>>
    /\ CallsIdle
    /\ FavIdle
    /\ CliIdle

\* sharpToIco(img) is called and waits for toBuffer; calls are numbered in
\* the order they are made
Invoke(c) ==
    /\ pc = "idle"
    /\ calls[c].state = "idle"
    /\ \A k \in CallIds : k < c => calls[k].state # "idle"
    /\ \E s \in CallSurfaces :
            calls' = [calls EXCEPT ![c] = [state |-> "pending", surface |-> s, result |-> <<>>]]
    /\ UNCHANGED <<icoVars, running, favVars, cliVars>>

\* toBuffer of call c is done: const {data, info} = await ...
Resume(c) ==
    /\ pc = "idle"
    /\ calls[c].state = "pending"
    /\ data' = SurfaceOf(c).bytes
    /\ info' = [width |-> SurfaceOf(c).width, height |-> SurfaceOf(c).height,
                size |-> Len(SurfaceOf(c).bytes)]
    /\ pc' = "getHeader"
    /\ running' = c
    /\ UNCHANGED <<header, offset, dir, bmpInfoHeader, dib, len, result, calls, favVars, cliVars>>

\* the promise of the executing call is resolved with the returned buffer or
\* rejected with the error thrown
Settle ==
    /\ pc \in {"resolved", "rejected"}
    /\ calls' = [calls EXCEPT ![running] =
                    [state |-> pc, surface |-> @.surface,
                     result |-> IF pc = "resolved" THEN result ELSE <<>>]]
    /\ pc' = "idle"
    /\ UNCHANGED <<data, info, header, offset, dir, bmpInfoHeader, dib, len, result, running>>
    /\ UNCHANGED <<favVars, cliVars>>

NextCalls ==
    \/ \E c \in CallIds : Invoke(c)
    \/ \E c \in CallIds : Resume(c)
    \/ GetHeader \/ GetDir \/ GetBmpInfoHeader \/ GetDib \/ Concat
    \/ Settle

SpecCalls == InitCalls /\ [][NextCalls]_vars

(***************************************************************************)
(* createFavicon: the pure functions it calls                              *)
(***************************************************************************)
\* the most paths that outputDir holds before a call
MaxExisting == 1

\* destructuring with a default: the default stands in for a missing field
Default(opt, dflt) == IF opt.set THEN opt.value ELSE dflt

\* String.prototype.endsWith for a one-character suffix
endsWith(s, ch) == Len(s) > 0 /\ s[Len(s)] = ch

\* s.replace(/\/+$/, ''): the run of slashes that ends the string is removed
RECURSIVE replaceTrailingSlashes(_)
replaceTrailingSlashes(s) ==
    IF endsWith(s, "/") THEN replaceTrailingSlashes(SubSeq(s, 1, Len(s) - 1))
    ELSE s

\* one slash less: s.replace(/\/$/, '')
baseOfOneSlash(basePath) ==
    IF endsWith(basePath, "/") THEN SubSeq(basePath, 1, Len(basePath) - 1)
    ELSE basePath

\* const base = basePath.endsWith('/') ? basePath.replace(/\/+$/, '') : basePath
baseOf(basePath) ==
    IF endsWith(basePath, "/") THEN replaceTrailingSlashes(basePath)
    ELSE basePath

\* Array.prototype.join
RECURSIVE join(_, _)
join(list, sep) ==
    IF list = <<>> THEN <<>>
    ELSE IF Len(list) = 1 THEN list[1]
    ELSE list[1] \o <<sep>> \o join(Tail(list), sep)

\* the manifest link is pushed whatever the manifest option says
generateHtmlManifestAlways(opts) ==
    LET base == baseOf(opts.basePath)
        l1 == << <<"<link rel=\"icon\" href=\"">> \o base
                    \o <<"/", "favicon.ico", "\" sizes=\"any\">">> >>
        l2 == IF opts.hasSvg
              THEN Append(l1, <<"<link rel=\"icon\" href=\"">> \o base
                    \o <<"/", "icon.svg", "\" type=\"image/svg+xml\">">>)
              ELSE l1
        l3 == Append(l2, <<"<link rel=\"apple-touch-icon\" href=\"">> \o base
                    \o <<"/", "apple-touch-icon.png", "\">">>)
        l4 == Append(l3, <<"<link rel=\"manifest\" href=\"">> \o base
                    \o <<"/", "manifest.webmanifest", "\">">>)
    IN  join(l4, "\n")

\* generateHtml: the link tags, joined by newlines
generateHtml(opts) ==
    LET base == baseOf(opts.basePath)
        l1 == << <<"<link rel=\"icon\" href=\"">> \o base
                    \o <<"/", "favicon.ico", "\" sizes=\"any\">">> >>
        l2 == IF opts.hasSvg
              THEN Append(l1, <<"<link rel=\"icon\" href=\"">> \o base
                    \o <<"/", "icon.svg", "\" type=\"image/svg+xml\">">>)
              ELSE l1
        l3 == Append(l2, <<"<link rel=\"apple-touch-icon\" href=\"">> \o base
                    \o <<"/", "apple-touch-icon.png", "\">">>)
        l4 == IF opts.manifest
              THEN Append(l3, <<"<link rel=\"manifest\" href=\"">> \o base
                    \o <<"/", "manifest.webmanifest", "\">">>)
              ELSE l3
    IN  join(l4, "\n")

\* the manifest names favicon-192.png and favicon-512.png
generateWebManifestFaviconNames(basePath) ==
    LET base == baseOf(basePath)
    IN  [icons |->
            << [src |-> base \o <<"/", "favicon-192.png">>,
                type |-> "image/png", sizes |-> "192x192"],
               [src |-> base \o <<"/", "favicon-512.png">>,
                type |-> "image/png", sizes |-> "512x512"] >>]

\* generateWebManifest: the document that JSON.stringify serialises
generateWebManifest(basePath) ==
    LET base == baseOf(basePath)
    IN  [icons |->
            << [src |-> base \o <<"/", "icon-192.png">>,
                type |-> "image/png", sizes |-> "192x192"],
               [src |-> base \o <<"/", "icon-512.png">>,
                type |-> "image/png", sizes |-> "512x512"] >>]

\* every sink gets the prefixed message
printWarningPrefixed(message, warner, delivered) ==
    IF warner = "false" THEN delivered
    ELSE Append(delivered,
            [sink |-> warner,
             text |-> <<"\\u001b[93m[warn]\\u001b[39m ">> \o message])

\* printWarning: the sequence of delivered warnings after the call
printWarning(message, warner, delivered) ==
    IF warner = "false" THEN delivered
    ELSE Append(delivered,
            [sink |-> warner,
             text |-> IF warner = "console.warn"
                      THEN <<"\\u001b[93m[warn]\\u001b[39m ">> \o message
                      ELSE message])

\* fileExists: "true", "false", or "throws" for a path that is not a file
fileExists(dirFiles, name) ==
    IF dirFiles[name].kind = "absent" THEN "false"
    ELSE IF dirFiles[name].kind = "directory" THEN "throws"
    ELSE "true"

(***************************************************************************)
(* createFavicon: arguments, and the world around a call                   *)
(***************************************************************************)
Image(f, w, h) == [format |-> f, width |-> w, height |-> h]

\* what a source can hold: vector and raster images on both sides of 512,
\* square or not, one whose dimensions sharp cannot tell and one that sharp
\* cannot decode at all
Images ==
    {Image("svg", 100, 100), Image("svg", 300, 100),
     Image("png", 512, 512), Image("png", 600, 512),
     Image("png", 511, 512), Image("png", 512, 100),
     Image("png", 0, 0), Image("unsupported", 0, 0)}

FewImages == {Image("svg", 300, 100), Image("png", 512, 512)}

Unset == [set |-> FALSE, value |-> FALSE]

Given(v) == [set |-> TRUE, value |-> v]

\* the values of sourceFile: missing, '', 123, {foo: 'bar'}, a Buffer, a path
\* and a URL
SourceFiles ==
    {[kind |-> "undefined", name |-> <<>>],
     [kind |-> "string", name |-> <<>>],
     [kind |-> "number", name |-> <<>>],
     [kind |-> "object", name |-> <<>>],
     [kind |-> "buffer", name |-> <<>>],
     [kind |-> "string", name |-> <<"logo.png">>],
     [kind |-> "string", name |-> <<"https://", "example.com/logo.png">>]}

\* !sourceFile
falsy(sf) == sf.kind = "undefined" \/ (sf.kind = "string" /\ sf.name = <<>>)

\* /^https?:\/\//.test(sourceFile)
isUrl(sf) ==
    sf.kind = "string" /\ sf.name # <<>> /\ sf.name[1] \in {"http://", "https://"}

BasePaths ==
    {<<>>, <<"/">>, <<"/", "f">>, <<"/", "f", "/">>, <<"/", "f", "/", "/">>}

Flags == {Unset, Given(TRUE), Given(FALSE)}

Warners ==
    {[set |-> FALSE, value |-> "console.warn"], Given("custom"), Given("false")}

Arguments ==
    {NoOptions} \cup
    [given : {TRUE},
     sourceFile : SourceFiles,
     warn : Warners,
     basePath : {[set |-> FALSE, value |-> <<>>]} \cup {Given(b) : b \in BasePaths},
     overwrite : Flags,
     manifest : Flags]

\* a file that was in outputDir before the call
Old == [kind |-> "old", size |-> 0, doc |-> [icons |-> <<>>], src |-> NoImage]

Directory == [kind |-> "directory", size |-> 0, doc |-> [icons |-> <<>>], src |-> NoImage]

\* outputDir before the call: at most MaxExisting of the names are taken, each
\* by a file or by a directory
OutputDirs ==
    {d \in [FileNames -> {Absent, Old, Directory}] :
        Cardinality({n \in FileNames : d[n] # Absent}) <= MaxExisting}

\* `${statusCode}`
HttpText(code) ==
    IF code = 200 THEN "200" ELSE IF code = 404 THEN "404"
    ELSE IF code = 500 THEN "500" ELSE IF code = 301 THEN "301" ELSE "?"

\* the status codes a server answers with; NoAnswer stands for a request that
\* fails
StatusCodes == {200, 301, 404, 500}

NoAnswer == 0 - 1

\* what reading, downloading and decoding sourceFile will give, and what
\* outputDir holds before the call
Worlds(opts) ==
    IF ~opts.given \/ opts.sourceFile.kind \notin {"buffer", "string"}
          \/ falsy(opts.sourceFile)
    THEN [readable : {FALSE}, statusCode : {0}, content : {NoImage},
          outputDir : OutputDirs]
    ELSE IF opts.sourceFile.kind = "buffer"
    THEN [readable : {TRUE}, statusCode : {0}, content : Images,
          outputDir : OutputDirs]
    ELSE IF isUrl(opts.sourceFile)
    THEN [readable : {TRUE}, statusCode : StatusCodes \cup {NoAnswer},
          content : FewImages, outputDir : OutputDirs]
    ELSE [readable : {FALSE}, statusCode : {0}, content : {NoImage},
          outputDir : OutputDirs]
         \cup [readable : {TRUE}, statusCode : {0}, content : FewImages,
               outputDir : OutputDirs]

\* arguments that say nothing beyond sourceFile when sourceFile is refused
Plain(opts) ==
    \/ ~opts.given
    \/ /\ opts.given
       /\ \/ opts.sourceFile.kind \in {"buffer", "string"} /\ ~falsy(opts.sourceFile)
          \/ /\ opts.warn.set = FALSE /\ opts.basePath.set = FALSE
             /\ opts.manifest = Unset

(***************************************************************************)
(* createFavicon, one action per step                                      *)
(***************************************************************************)
warn == Default(options.warn, "console.warn")

basePath == Default(options.basePath, <<"/">>)

overwrite == Default(options.overwrite, FALSE)

\* no manifest unless it is asked for
manifestOffByDefault == Default(options.manifest, FALSE)

manifest == Default(options.manifest, TRUE)

Message(m) == [message |-> m, detail |-> <<>>]

\* createFavicon(options) is called: the encoder is idle, outputDir holds what
\* it held before
InitFavicon ==
    /\ data = <<>> /\ info = [width |-> 0, height |-> 0, size |-> 0]
    /\ pc = "idle"
    /\ header = <<>> /\ offset = 0 /\ dir = <<>>
    /\ bmpInfoHeader = <<>> /\ dib = <<>> /\ len = 0 /\ result = <<>>
    /\ CallsIdle
    /\ CliIdle
    /\ options \in {o \in Arguments : Plain(o)}
    /\ world \in Worlds(options)
    /\ files = world.outputDir
    /\ fpc = "validate"
    /\ source = NoImage
    /\ image = NoImage
    /\ html = <<>>
    /\ error = NoError
    /\ warnings = <<>>
    /\ ioDone = {}

Reject(err) ==
    /\ fpc' = "rejected"
    /\ error' = err

\* sourceFile is asked for before options is known to be there
ValidateSourceFirst ==
    /\ fpc = "validate"
    /\ IF ~options.given \/ falsy(options.sourceFile)
       THEN Reject(Message("No source file specified"))
       ELSE IF options.sourceFile.kind \notin {"string", "buffer"}
       THEN Reject(Message("Source file must be a string (file path or URL) or a Buffer"))
       ELSE fpc' = "load" /\ UNCHANGED error
    /\ UNCHANGED <<options, source, image, html, files, warnings, ioDone, world>>
    /\ UNCHANGED <<icoVars, callVars, cliVars>>

\* the three checks of the arguments
Validate ==
    /\ fpc = "validate"
    /\ IF ~options.given
       THEN Reject(Message("No options specified"))
       ELSE IF falsy(options.sourceFile)
       THEN Reject(Message("No source file specified"))
       ELSE IF options.sourceFile.kind \notin {"string", "buffer"}
       THEN Reject(Message("Source file must be a string (file path or URL) or a Buffer"))
       ELSE fpc' = "load" /\ UNCHANGED error
    /\ UNCHANGED <<options, source, image, html, files, warnings, ioDone, world>>
    /\ UNCHANGED <<icoVars, callVars, cliVars>>

\* sourceFile is a Buffer: it is the source
LoadBuffer ==
    /\ fpc = "load"
    /\ options.sourceFile.kind = "buffer"
    /\ source' = world.content
    /\ fpc' = "metadata"
    /\ UNCHANGED <<options, image, html, error, files, warnings, ioDone, world>>
    /\ UNCHANGED <<icoVars, callVars, cliVars>>

\* the body of the response is the source whatever the status
DownloadImageAnyStatus ==
    /\ fpc = "load"
    /\ options.sourceFile.kind = "string" /\ isUrl(options.sourceFile)
    /\ ioDone' = ioDone \cup {"request"}
    /\ IF world.statusCode = NoAnswer
       THEN /\ Reject([message |-> "Failed fetching image from",
                       detail |-> options.sourceFile.name \o <<"ECONNREFUSED">>])
            /\ UNCHANGED source
       ELSE /\ source' = world.content
            /\ fpc' = "metadata"
            /\ UNCHANGED error
    /\ UNCHANGED <<options, image, html, files, warnings, world>>
    /\ UNCHANGED <<icoVars, callVars, cliVars>>

\* downloadImage: the body of a 200 response is the source; a request that
\* fails and a response with another status reject
DownloadImage ==
    /\ fpc = "load"
    /\ options.sourceFile.kind = "string" /\ isUrl(options.sourceFile)
    /\ ioDone' = ioDone \cup {"request"}
    /\ IF world.statusCode = NoAnswer
       THEN /\ Reject([message |-> "Failed fetching image from",
                       detail |-> options.sourceFile.name \o <<"ECONNREFUSED">>])
            /\ UNCHANGED source
       ELSE IF world.statusCode # 200
       THEN /\ Reject([message |-> "Failed fetching image from",
                       detail |-> options.sourceFile.name
                                  \o <<"Server returned HTTP ", HttpText(world.statusCode)>>])
            /\ UNCHANGED source
       ELSE /\ source' = world.content
            /\ fpc' = "metadata"
            /\ UNCHANGED error
    /\ UNCHANGED <<options, image, html, files, warnings, world>>
    /\ UNCHANGED <<icoVars, callVars, cliVars>>

\* readImage: the bytes of the file are the source
ReadImage ==
    /\ fpc = "load"
    /\ options.sourceFile.kind = "string" /\ ~isUrl(options.sourceFile)
    /\ ioDone' = ioDone \cup {"readFile"}
    /\ IF ~world.readable
       THEN /\ Reject([message |-> "Could not read file",
                       detail |-> options.sourceFile.name \o <<"ENOENT">>])
            /\ UNCHANGED source
       ELSE /\ source' = world.content
            /\ fpc' = "metadata"
            /\ UNCHANGED error
    /\ UNCHANGED <<options, image, html, files, warnings, world>>
    /\ UNCHANGED <<icoVars, callVars, cliVars>>

\* the size check applies to every format
MetadataSvgChecked ==
    /\ fpc = "metadata"
    /\ IF source.format = "unsupported"
       THEN /\ Reject(Message("Input buffer contains unsupported image format"))
            /\ UNCHANGED <<image, warnings>>
       ELSE /\ image' = source
            /\ IF source.width = 0 \/ source.height = 0
               THEN /\ Reject(Message("Could not read image dimensions"))
                    /\ UNCHANGED warnings
               ELSE IF source.width < 512 \/ source.height < 512
               THEN /\ Reject(Message("Source image must be at least 512x512 pixels"))
                    /\ UNCHANGED warnings
               ELSE /\ warnings' =
                        IF source.format # "svg"
                        THEN printWarning(<<"Source image is not an SVG - skipping SVG output">>,
                                          warn, warnings)
                        ELSE warnings
                    /\ fpc' = "mkdir"
                    /\ UNCHANGED error
    /\ UNCHANGED <<options, source, html, files, ioDone, world>>
    /\ UNCHANGED <<icoVars, callVars, cliVars>>

\* image.metadata(), the checks of the dimensions, the warning for a source
\* that is not an SVG
Metadata ==
    /\ fpc = "metadata"
    /\ IF source.format = "unsupported"
       THEN /\ Reject(Message("Input buffer contains unsupported image format"))
            /\ UNCHANGED <<image, warnings>>
       ELSE /\ image' = source
            /\ IF source.width = 0 \/ source.height = 0
               THEN /\ Reject(Message("Could not read image dimensions"))
                    /\ UNCHANGED warnings
               ELSE IF source.format # "svg" /\ (source.width < 512 \/ source.height < 512)
               THEN /\ Reject(Message("Source image must be at least 512x512 pixels"))
                    /\ UNCHANGED warnings
               ELSE /\ warnings' =
                        IF source.format # "svg"
                        THEN printWarning(<<"Source image is not an SVG - skipping SVG output">>,
                                          warn, warnings)
                        ELSE warnings
                    /\ fpc' = "mkdir"
                    /\ UNCHANGED error
    /\ UNCHANGED <<options, source, html, files, ioDone, world>>
    /\ UNCHANGED <<icoVars, callVars, cliVars>>

\* mkdir(outputDir), and the warning for an image that is not square
Mkdir ==
    /\ fpc = "mkdir"
    /\ ioDone' = ioDone \cup {"mkdir"}
    /\ warnings' =
        IF image.width # image.height
        THEN printWarning(
                <<"Source image is not square - it is HIGHLY recommended that input image is square">>,
                warn, warnings)
        ELSE warnings
    /\ fpc' = "icon-512.png"
    /\ UNCHANGED <<options, source, image, html, error, files, world>>
    /\ UNCHANGED <<icoVars, callVars, cliVars>>

\* an existing file is replaced without a look at overwrite
maybeWriteFileAlways(name, content, next) ==
    LET exists == fileExists(files, name)
    IN  /\ IF exists = "throws"
           THEN /\ Reject([message |-> "is not a file", detail |-> <<name>>])
                /\ ioDone' = ioDone \cup {"stat"}
                /\ UNCHANGED <<files, warnings>>
           ELSE /\ warnings' =
                     IF exists = "true"
                     THEN printWarning(<<"File ", name, " already exists - replacing">>,
                                       warn, warnings)
                     ELSE warnings
                /\ files' = [files EXCEPT ![name] = content]
                /\ ioDone' = ioDone \cup {"stat", "write"}
                /\ fpc' = next
                /\ UNCHANGED error
        /\ UNCHANGED <<options, source, image, html, world>>
        /\ UNCHANGED <<icoVars, callVars, cliVars>>

\* maybeWriteFile(name, writer), then on to the step next
maybeWriteFile(name, content, next) ==
    LET exists == fileExists(files, name)
    IN  /\ IF exists = "throws"
           THEN /\ Reject([message |-> "is not a file", detail |-> <<name>>])
                /\ ioDone' = ioDone \cup {"stat"}
                /\ UNCHANGED <<files, warnings>>
           ELSE IF exists = "true" /\ overwrite
           THEN /\ warnings' = printWarning(<<"File ", name, " already exists - replacing">>,
                                            warn, warnings)
                /\ files' = [files EXCEPT ![name] = content]
                /\ ioDone' = ioDone \cup {"stat", "write"}
                /\ fpc' = next
                /\ UNCHANGED error
           ELSE IF exists = "true" /\ ~overwrite
           THEN /\ warnings' = printWarning(<<"File ", name, " already exists - skipping">>,
                                            warn, warnings)
                /\ ioDone' = ioDone \cup {"stat"}
                /\ fpc' = next
                /\ UNCHANGED <<files, error>>
           ELSE /\ files' = [files EXCEPT ![name] = content]
                /\ ioDone' = ioDone \cup {"stat", "write"}
                /\ fpc' = next
                /\ UNCHANGED <<warnings, error>>
        /\ UNCHANGED <<options, source, image, html, world>>
        /\ UNCHANGED <<icoVars, callVars, cliVars>>

\* base.clone().resize(size, size).png().toFile(path)
Png(size) == [kind |-> "png", size |-> size, doc |-> [icons |-> <<>>], src |-> source]

WriteIcon512 ==
    /\ fpc = "icon-512.png"
    /\ maybeWriteFile("icon-512.png", Png(512), "icon-192.png")

WriteIcon192 ==
    /\ fpc = "icon-192.png"
    /\ maybeWriteFile("icon-192.png", Png(192), "apple-touch-icon.png")

WriteAppleTouchIcon ==
    /\ fpc = "apple-touch-icon.png"
    /\ maybeWriteFile("apple-touch-icon.png", Png(180), "favicon.ico")

\* writeFile(path, await sharpToIco(base.clone())): the container of the
\* 32x32 rendering of the source
WriteFaviconIco ==
    /\ fpc = "favicon.ico"
    /\ maybeWriteFile("favicon.ico",
                      [kind |-> "ico", size |-> 32, doc |-> [icons |-> <<>>], src |-> source],
                      "manifest.webmanifest")

\* the manifest is written whatever the manifest option says
WriteManifestAlways ==
    /\ fpc = "manifest.webmanifest"
    /\ maybeWriteFile("manifest.webmanifest",
                      [kind |-> "manifest", size |-> 0,
                       doc |-> generateWebManifest(basePath), src |-> NoImage],
                      "icon.svg")

\* if (manifest) writeFile(path, generateWebManifest(basePath))
WriteManifest ==
    /\ fpc = "manifest.webmanifest"
    /\ IF manifest
       THEN maybeWriteFile("manifest.webmanifest",
                           [kind |-> "manifest", size |-> 0,
                            doc |-> generateWebManifest(basePath), src |-> NoImage],
                           "icon.svg")
       ELSE /\ fpc' = "icon.svg"
            /\ UNCHANGED <<options, source, image, html, error, files, warnings, ioDone, world>>
            /\ UNCHANGED <<icoVars, callVars, cliVars>>

\* the source is written as icon.svg whatever its format
WriteSvgAlways ==
    /\ fpc = "icon.svg"
    /\ maybeWriteFile("icon.svg",
                      [kind |-> "bytes", size |-> 0, doc |-> [icons |-> <<>>], src |-> source],
                      "html")

\* if (format === 'svg' && source) writeFile(path, inputSource)
WriteSvg ==
    /\ fpc = "icon.svg"
    /\ IF image.format = "svg"
       THEN maybeWriteFile("icon.svg",
                           [kind |-> "bytes", size |-> 0, doc |-> [icons |-> <<>>],
                            src |-> source],
                           "html")
       ELSE /\ fpc' = "html"
            /\ UNCHANGED <<options, source, image, html, error, files, warnings, ioDone, world>>
            /\ UNCHANGED <<icoVars, callVars, cliVars>>

\* const html = generateHtml(...); return {html}
GenerateHtml ==
    /\ fpc = "html"
    /\ html' = generateHtml([basePath |-> basePath, hasSvg |-> image.format = "svg",
                             manifest |-> manifest])
    /\ fpc' = "resolved"
    /\ UNCHANGED <<options, source, image, error, files, warnings, ioDone, world>>
    /\ UNCHANGED <<icoVars, callVars, cliVars>>

NextFavicon ==
    \/ Validate
    \/ LoadBuffer
    \/ DownloadImage
    \/ ReadImage
    \/ Metadata
    \/ Mkdir
    \/ WriteIcon512
    \/ WriteIcon192
    \/ WriteAppleTouchIcon
    \/ WriteFaviconIco
    \/ WriteManifest
    \/ WriteSvg
    \/ GenerateHtml

SpecFavicon == InitFavicon /\ [][NextFavicon]_vars

(***************************************************************************)
(* The command line program: cli.parse(), the action of the command, and   *)
(* the handling of what parse throws                                       *)
(***************************************************************************)
\* what cli.parse() makes of a command line: it runs the action of the
\* command, it throws for a missing <source-file>, it throws another error
\* (an option the command does not know), it throws a value that is not an
\* Error, or it prints the help for --help and runs nothing
Outcomes == {"run", "missing required args", "other error", "not an error", "help"}

CliSources == {<<"logo.png">>, <<"https://", "example.com/logo.png">>}

CliBasePaths == {[set |-> FALSE, value |-> <<>>], Given(<<"/", "f", "/">>)}

CliArgvs ==
    [outcome : {"run"}, sourceFile : CliSources, basePath : CliBasePaths,
     overwrite : BOOLEAN, noManifest : BOOLEAN, noWarn : BOOLEAN]
    \cup {[NoArgv EXCEPT !.outcome = o] : o \in Outcomes \ {"run"}}

\* const options = {sourceFile, outputDir, basePath, warn, overwrite, manifest}:
\* a flag that was not passed is undefined
CliOptions(av) ==
    [given |-> TRUE,
     sourceFile |-> [kind |-> "string", name |-> av.sourceFile],
     warn |-> IF av.noWarn THEN Given("false")
              ELSE [set |-> FALSE, value |-> "console.warn"],
     basePath |-> av.basePath,
     overwrite |-> IF av.overwrite THEN Given(TRUE) ELSE Unset,
     manifest |-> IF av.noManifest THEN Given(FALSE) ELSE Unset]

\* the program is started: nothing printed yet, createFavicon not called
InitCli ==
    /\ data = <<>> /\ info = [width |-> 0, height |-> 0, size |-> 0]
    /\ pc = "idle"
    /\ header = <<>> /\ offset = 0 /\ dir = <<>>
    /\ bmpInfoHeader = <<>> /\ dib = <<>> /\ len = 0 /\ result = <<>>
    /\ CallsIdle
    /\ argv \in CliArgvs
    /\ cliPc = "parse"
    /\ stdout = <<>>
    /\ stderr = <<>>
    /\ exitCode = 0
    /\ options = NoOptions
    /\ world \in IF argv.outcome = "run" THEN Worlds(CliOptions(argv))
                 ELSE [readable : {FALSE}, statusCode : {0}, content : {NoImage},
                       outputDir : OutputDirs]
    /\ files = world.outputDir
    /\ fpc = "idle"
    /\ source = NoImage
    /\ image = NoImage
    /\ html = <<>>
    /\ error = NoError
    /\ warnings = <<>>
    /\ ioDone = {}

HelpText == <<"Generate favicons from a source image">>

\* process.exit(1) after the printing
Exit1 ==
    /\ exitCode' = 1
    /\ cliPc' = "exited"

\* a parse error of any kind prints the help
ParseHelpOnAnyError ==
    /\ cliPc = "parse"
    /\ IF argv.outcome = "run"
       THEN /\ options' = CliOptions(argv)
            /\ fpc' = "validate"
            /\ cliPc' = "await"
            /\ UNCHANGED <<stdout, stderr, exitCode>>
       ELSE IF argv.outcome = "help"
       THEN /\ stdout' = Append(stdout, [kind |-> "help", text |-> HelpText])
            /\ cliPc' = "exited"
            /\ UNCHANGED <<stderr, exitCode, options, fpc>>
       ELSE /\ stdout' = Append(stdout, [kind |-> "help", text |-> HelpText])
            /\ Exit1
            /\ UNCHANGED <<stderr, options, fpc>>
    /\ UNCHANGED <<argv, source, image, html, error, files, warnings, ioDone, world>>
    /\ UNCHANGED <<icoVars, callVars>>

\* cli.parse() in its try, and the catch
Parse ==
    /\ cliPc = "parse"
    /\ IF argv.outcome = "run"
       THEN /\ options' = CliOptions(argv)
            /\ fpc' = "validate"
            /\ cliPc' = "await"
            /\ UNCHANGED <<stdout, stderr, exitCode>>
       ELSE IF argv.outcome = "help"
       THEN /\ stdout' = Append(stdout, [kind |-> "help", text |-> HelpText])
            /\ cliPc' = "exited"
            /\ UNCHANGED <<stderr, exitCode, options, fpc>>
       ELSE IF argv.outcome = "missing required args"
       THEN /\ stdout' = Append(stdout, [kind |-> "help", text |-> HelpText])
            /\ Exit1
            /\ UNCHANGED <<stderr, options, fpc>>
       ELSE /\ stderr' = Append(stderr,
                            IF argv.outcome = "not an error"
                            THEN Message("Unknown error")
                            ELSE Message("Unknown option"))
            /\ Exit1
            /\ UNCHANGED <<stdout, options, fpc>>
    /\ UNCHANGED <<argv, source, image, html, error, files, warnings, ioDone, world>>
    /\ UNCHANGED <<icoVars, callVars>>

\* console.log(result.html): createFavicon has resolved, the process ends
ActionLog ==
    /\ cliPc = "await"
    /\ fpc = "resolved"
    /\ stdout' = Append(stdout, [kind |-> "html", text |-> html])
    /\ cliPc' = "exited"
    /\ UNCHANGED <<argv, stderr, exitCode>>
    /\ UNCHANGED <<icoVars, callVars, favVars>>

\* the catch of the action: console.error(err), process.exit(1)
ActionCatch ==
    /\ cliPc = "await"
    /\ fpc = "rejected"
    /\ stderr' = Append(stderr, error)
    /\ Exit1
    /\ UNCHANGED <<argv, stdout>>
    /\ UNCHANGED <<icoVars, callVars, favVars>>

NextCli ==
    \/ Parse
    \/ Validate
    \/ DownloadImage
    \/ ReadImage
    \/ Metadata
    \/ Mkdir
    \/ WriteIcon512
    \/ WriteIcon192
    \/ WriteAppleTouchIcon
    \/ WriteFaviconIco
    \/ WriteManifest
    \/ WriteSvg
    \/ GenerateHtml
    \/ ActionLog
    \/ ActionCatch

SpecCli == InitCli /\ [][NextCli]_vars

(***************************************************************************)
(* Properties of the encoder.                                              *)
(***************************************************************************)
\* the byte length a surface of the dimensions of info must have
SurfaceBytes == info.width * info.height * 4

\* the part of the container behind the three headers
Payload == SubSeq(result, HEADER_SIZE + DIRECTORY_SIZE + BITMAP_SIZE + 1, Len(result))

\* the unsigned little-endian number in the n bytes at the 0-based offset off
LE(buf, off, n) ==
    LET d(k) == IF k < n THEN buf[off + k + 1] ELSE 0
    IN  d(0) + 256 * d(1) + 65536 * d(2) + 65536 * 256 * d(3)

\* C1: for width and height in 1..255 and a buffer of exactly
\* width * height * 4 bytes the call is never rejected, and the container it
\* is resolved with has 6 + 16 + 40 + width * height * 4 bytes: the file
\* header, the directory entry, the bitmap info header and a payload of
\* width * height * 4 bytes, in that order and with nothing between the rows.
C1_Length ==
    (/\ info.width \in 1..255
     /\ info.height \in 1..255
     /\ Len(data) = SurfaceBytes)
    => /\ pc # "rejected"
       /\ pc = "resolved" =>
            /\ Len(result) = 6 + 16 + 40 + SurfaceBytes
            /\ SubSeq(result, 1, 6) = header
            /\ SubSeq(result, 7, 22) = dir
            /\ SubSeq(result, 23, 62) = bmpInfoHeader
            /\ SubSeq(result, 63, Len(result)) = dib
            /\ Len(header) = 6 /\ Len(dir) = 16 /\ Len(bmpInfoHeader) = 40
            /\ Len(dib) = SurfaceBytes

C1_Witness ==
    /\ pc = "resolved"
    /\ info.width = 255
    /\ info.height = 1
    /\ Len(data) = SurfaceBytes

\* C2: in a resolved call, the pixel at row r (from the top) and column c of
\* the surface, read at r * rowBytes + c * 4, is in the payload at
\* (height - 1 - r) * rowBytes + c * 4 as B, G, R, A, with rowBytes = width * 4.
C2_PixelTransform ==
    pc = "resolved" =>
        \A r \in 0..(info.height - 1), c \in 0..(info.width - 1) :
            LET rowBytes == info.width * 4
                in == r * rowBytes + c * 4
                out == (info.height - 1 - r) * rowBytes + c * 4
            IN  /\ Payload[out + 1] = data[in + 3]
                /\ Payload[out + 2] = data[in + 2]
                /\ Payload[out + 3] = data[in + 1]
                /\ Payload[out + 4] = data[in + 4]

\* a resolved 2x2 call whose top left and bottom left pixels differ and whose
\* top left pixel has different red and blue
C2_Witness ==
    /\ pc = "resolved"
    /\ info.width = 2
    /\ info.height = 2
    /\ data[1] # data[9]
    /\ data[1] # data[3]
    /\ Payload[9] = data[3]

C7_PayloadSize ==
    pc = "resolved" =>
        /\ LE(result, 6 + 8, 4) = Len(result) - LE(result, 6 + 12, 4)
        /\ LE(dir, 8, 4) = LE(result, 6 + 8, 4)
        /\ Len(data) = SurfaceBytes => LE(result, 6 + 8, 4) = SurfaceBytes + 40

\* a correctly sized 32x32 surface: 4096 + 40 = 4136 = 16 * 256 + 40
C7_Witness ==
    /\ pc = "resolved"
    /\ info.width = 32 /\ info.height = 32 /\ Len(data) = SurfaceBytes
    /\ result[15] = 40 /\ result[16] = 16 /\ result[17] = 0 /\ result[18] = 0

C9_HeaderBytes ==
    pc = "resolved" =>
        /\ SubSeq(result, 1, 6) = <<0, 0, 1, 0, 1, 0>>
        /\ LE(result, 0, 2) = 0 /\ LE(result, 2, 2) = 1 /\ LE(result, 4, 2) = 1
        /\ result[7] = info.width
        /\ result[8] = info.height
        /\ (info.width = 32 /\ info.height = 32) => (result[7] = 32 /\ result[8] = 32)

\* the opaque red 32x32 surface, every payload pixel 00 00 FF FF
C9_Witness ==
    /\ pc = "resolved"
    /\ info.width = 32 /\ info.height = 32 /\ Len(data) = SurfaceBytes
    /\ \A i \in 0..1023 : SubSeq(data, 4 * i + 1, 4 * i + 4) = <<255, 0, 0, 255>>
    /\ \A i \in 0..1023 : SubSeq(Payload, 4 * i + 1, 4 * i + 4) = <<0, 0, 255, 255>>
    /\ SubSeq(result, 1, 8) = <<0, 0, 1, 0, 1, 0, 32, 32>>

C11_Deterministic ==
    \A c1 \in CallIds, c2 \in CallIds :
        (/\ calls[c1].state \in {"resolved", "rejected"}
         /\ calls[c2].state \in {"resolved", "rejected"}
         /\ calls[c1].surface = calls[c2].surface)
        => /\ calls[c1].state = calls[c2].state
           /\ calls[c1].result = calls[c2].result

\* the first and the third call have encoded the same surface and the call
\* between them another one
C11_Witness ==
    /\ calls[1].state = "resolved"
    /\ calls[2].state = "resolved"
    /\ calls[3].state = "resolved"
    /\ calls[1].surface = calls[3].surface
    /\ calls[1].surface # calls[2].surface
    /\ calls[1].result = calls[3].result
    /\ calls[1].result # calls[2].result

\* C12: a call returns nothing before it has all four segments: the returned
\* buffer is empty until the call is resolved and when it is rejected, and a
\* resolved call has returned the file header, the directory entry, the
\* bitmap info header and the payload, each complete.
C12_NoPartialOutput ==
    /\ pc # "resolved" => result = <<>>
    /\ pc = "resolved" =>
        /\ result = header \o dir \o bmpInfoHeader \o dib
        /\ Len(header) = HEADER_SIZE
        /\ Len(dir) = DIRECTORY_SIZE
        /\ Len(bmpInfoHeader) = BITMAP_SIZE
        /\ Len(dib) = info.size
        /\ Len(dib) >= SurfaceBytes

\* a call rejected by getDib, after three of the four segments were built
C12_Witness ==
    /\ pc = "rejected"
    /\ Len(header) = 6 /\ Len(dir) = 16 /\ Len(bmpInfoHeader) = 40
    /\ dib = <<>>
    /\ result = <<>>

\* C13: whatever the order in which calls are made and resumed, a call that
\* is settled has the outcome sharpToIco gives for its own surface alone.
C13_SameAsAlone ==
    \A c \in CallIds :
        calls[c].state \in {"resolved", "rejected"}
        => /\ calls[c].state = sharpToIco(calls[c].surface.bytes,
                                  [width |-> calls[c].surface.width,
                                   height |-> calls[c].surface.height,
                                   size |-> Len(calls[c].surface.bytes)]).state
           /\ calls[c].result = sharpToIco(calls[c].surface.bytes,
                                  [width |-> calls[c].surface.width,
                                   height |-> calls[c].surface.height,
                                   size |-> Len(calls[c].surface.bytes)]).result

\* the second call is resolved while the first, made before it with another
\* surface, still waits
C13_Witness ==
    /\ calls[1].state = "pending"
    /\ calls[2].state = "resolved"
    /\ calls[1].surface # calls[2].surface
    /\ Len(calls[2].result) = 62 + Len(calls[2].surface.bytes)

(***************************************************************************)
(* Properties of createFavicon                                             *)
(***************************************************************************)
\* nothing was read, downloaded or written
NoTraffic ==
    /\ ioDone = {}
    /\ files = world.outputDir

RejectedWith(m) == fpc = "rejected" /\ error.message = m

\* C14: once the arguments have been checked, a call without options is
\* rejected with 'No options specified'; else one with a falsy sourceFile with
\* 'No source file specified'; else one whose sourceFile is neither a string
\* nor a Buffer with 'Source file must be a string (file path or URL) or a
\* Buffer'; and in each of these cases, as before the checks, nothing has been
\* read, downloaded or written.
C14_ArgumentChecks ==
    /\ fpc = "validate" => NoTraffic
    /\ fpc # "validate" =>
        IF ~options.given
        THEN RejectedWith("No options specified") /\ NoTraffic
        ELSE IF options.sourceFile.kind = "undefined"
                \/ (options.sourceFile.kind = "string" /\ Len(options.sourceFile.name) = 0)
        THEN RejectedWith("No source file specified") /\ NoTraffic
        ELSE IF options.sourceFile.kind \notin {"string", "buffer"}
        THEN RejectedWith("Source file must be a string (file path or URL) or a Buffer")
             /\ NoTraffic
        ELSE error.message \notin
                {"No options specified", "No source file specified",
                 "Source file must be a string (file path or URL) or a Buffer"}

\* a call with sourceFile: 123 into a directory that holds a file is rejected
C14_Witness ==
    /\ fpc = "rejected"
    /\ options.given /\ options.sourceFile.kind = "number"
    /\ \E n \in FileNames : files[n].kind = "old"
    /\ error.message = "Source file must be a string (file path or URL) or a Buffer"

\* image.metadata() has given a width and a height
DimensionsRead == image # NoImage /\ image.width > 0 /\ image.height > 0

\* C15 as claimed: a source whose width or height is below 512 is rejected with
\* 'Source image must be at least 512x512 pixels'.
C15_AsClaimed ==
    (DimensionsRead /\ (image.width < 512 \/ image.height < 512))
        => RejectedWith("Source image must be at least 512x512 pixels")

\* C15: a source whose dimensions were read is rejected with 'Source image
\* must be at least 512x512 pixels' exactly when it is not an SVG and its width
\* or height is below 512; an SVG below 512 is not rejected for its size.
C15_SmallRasterRejected ==
    DimensionsRead =>
        (RejectedWith("Source image must be at least 512x512 pixels")
            <=> (image.format # "svg" /\ (image.width < 512 \/ image.height < 512)))

\* a PNG of 512x100 is rejected
C15_Witness ==
    /\ image = Image("png", 512, 100)
    /\ RejectedWith("Source image must be at least 512x512 pixels")

\* String.prototype.split: the parts of s between the pieces sep
RECURSIVE Split(_, _)
Split(s, sep) ==
    IF \A i \in 1..Len(s) : s[i] # sep THEN <<s>>
    ELSE LET k == CHOOSE i \in 1..Len(s) :
                    s[i] = sep /\ \A j \in 1..(i - 1) : s[j] # sep
         IN  <<SubSeq(s, 1, k - 1)>> \o Split(SubSeq(s, k + 1, Len(s)), sep)

\* the link tags of the returned html
Links == Split(html, "\n")

\* the file a link tag points to: the piece before the one that closes the tag
LinkFile(link) == link[Len(link) - 1]

ManifestEnabled == ~options.manifest.set \/ options.manifest.value

LinkOrder == <<"favicon.ico", "icon.svg", "apple-touch-icon.png", "manifest.webmanifest">>

LinkPresent(n) ==
    \/ n \in {"favicon.ico", "apple-touch-icon.png"}
    \/ n = "icon.svg" /\ image.format = "svg"
    \/ n = "manifest.webmanifest" /\ ManifestEnabled

\* C16: the html of a resolved call is link tags joined by newlines, and the
\* files they point to are, in this order, favicon.ico, icon.svg (exactly when
\* the source is an SVG), apple-touch-icon.png, manifest.webmanifest (exactly
\* when manifest generation is enabled).
C16_LinkOrder ==
    fpc = "resolved" =>
        [i \in 1..Len(Links) |-> LinkFile(Links[i])] = SelectSeq(LinkOrder, LinkPresent)

\* an SVG source with manifest: false gives three links, icon.svg the second
C16_Witness ==
    /\ fpc = "resolved"
    /\ image.format = "svg" /\ ~ManifestEnabled
    /\ Len(Links) = 3
    /\ LinkFile(Links[2]) = "icon.svg"

\* the href of a link tag: what stands between its opening and closing pieces
Href(link) == SubSeq(link, 2, Len(link) - 1)

\* p without the slashes at its end
Stripped(p) ==
    LET keep == {i \in 1..Len(p) : p[i] # "/"}
        last == IF keep = {} THEN 0 ELSE CHOOSE i \in keep : \A j \in keep : j <= i
    IN  SubSeq(p, 1, last)

BasePathUsed == IF options.basePath.set THEN options.basePath.value ELSE <<"/">>

\* C17: every href of the returned html and every src of the written manifest
\* is basePath without its trailing slashes, then '/', then the file name; a
\* base path that differs from the one given only in trailing slashes gives
\* the same html and manifest; with the default basePath the first href is
\* '/favicon.ico'.
C17_BasePath ==
    /\ fpc = "resolved" =>
        \A i \in 1..Len(Links) :
            Href(Links[i]) = Stripped(BasePathUsed) \o <<"/", LinkFile(Links[i])>>
    /\ files["manifest.webmanifest"].kind = "manifest" =>
        LET icons == files["manifest.webmanifest"].doc.icons
        IN  \A i \in 1..Len(icons) :
                icons[i].src = Stripped(BasePathUsed) \o <<"/", icons[i].src[Len(icons[i].src)]>>
    /\ \A b \in BasePaths :
        Stripped(b) = Stripped(BasePathUsed) =>
            /\ fpc = "resolved" =>
                html = generateHtml([basePath |-> b, hasSvg |-> image.format = "svg",
                                     manifest |-> ManifestEnabled])
            /\ files["manifest.webmanifest"].kind = "manifest" =>
                files["manifest.webmanifest"].doc = generateWebManifest(b)
    /\ (fpc = "resolved" /\ ~options.basePath.set) =>
        Href(Links[1]) = <<"/", "favicon.ico">>

\* a call with basePath '/f//' has written its manifest and returned its html
C17_Witness ==
    /\ fpc = "resolved"
    /\ options.basePath.set /\ options.basePath.value = <<"/", "f", "/", "/">>
    /\ files["manifest.webmanifest"].kind = "manifest"
    /\ files["manifest.webmanifest"].doc.icons[1].src = <<"/", "f", "/", "icon-192.png">>
    /\ Href(Links[1]) = <<"/", "f", "/", "favicon.ico">>

\* the file name of a src: its last piece
SrcFile(icon) == icon.src[Len(icon.src)]

\* the file name is one that createFavicon has written as a PNG of the given
\* size, or has left alone because it was there and overwrite is off
WrittenAsPng(name, size) ==
    /\ name \in FileNames
    /\ \/ files[name].kind = "png" /\ files[name].size = size
       \/ files[name].kind = "old" /\ ~(options.overwrite.set /\ options.overwrite.value)

\* C18: the manifest that was written has exactly two icons, the 192 one first
\* and the 512 one second, both of type 'image/png', with sizes '192x192' and
\* '512x512' and file names icon-192.png and icon-512.png; when the call has
\* resolved these are the names of the PNG files of these sizes it has written.
C18_ManifestIcons ==
    files["manifest.webmanifest"].kind = "manifest" =>
        LET icons == files["manifest.webmanifest"].doc.icons
        IN  /\ Len(icons) = 2
            /\ icons[1].type = "image/png" /\ icons[2].type = "image/png"
            /\ icons[1].sizes = "192x192" /\ icons[2].sizes = "512x512"
            /\ SrcFile(icons[1]) = "icon-192.png"
            /\ SrcFile(icons[2]) = "icon-512.png"
            /\ fpc = "resolved" =>
                /\ WrittenAsPng(SrcFile(icons[1]), 192)
                /\ WrittenAsPng(SrcFile(icons[2]), 512)

\* a resolved call has written the manifest and the two PNG files it names
C18_Witness ==
    /\ fpc = "resolved"
    /\ files["manifest.webmanifest"].kind = "manifest"
    /\ files["icon-192.png"].kind = "png" /\ files["icon-192.png"].size = 192
    /\ files["icon-512.png"].kind = "png" /\ files["icon-512.png"].size = 512

\* outputDir held nothing before the call
EmptyBefore == \A n \in FileNames : world.outputDir[n].kind = "absent"

\* the warning with the text m has reached the sink, prefixed or not
Emitted(m) ==
    \E i \in 1..Len(warnings) :
        \/ warnings[i].text = m
        \/ Len(warnings[i].text) = Len(m) + 1 /\ Tail(warnings[i].text) = m

NotSvgWarning == <<"Source image is not an SVG - skipping SVG output">>

\* icon.svg is there exactly for an SVG source, and holds the source's bytes
SvgPassedThrough ==
    /\ files["icon.svg"].kind # "absent" <=> world.content.format = "svg"
    /\ world.content.format = "svg" =>
        files["icon.svg"].kind = "bytes" /\ files["icon.svg"].src = world.content

\* C19 as claimed: a call that resolves into an empty outputDir has written
\* icon.svg, holding the source bytes, exactly when the source is an SVG, and
\* for any other source the warning 'Source image is not an SVG - skipping SVG
\* output' was emitted.
C19_AsClaimed ==
    (fpc = "resolved" /\ EmptyBefore) =>
        /\ SvgPassedThrough
        /\ world.content.format # "svg" => Emitted(NotSvgWarning)

\* C19: a call that resolves into an empty outputDir has written icon.svg,
\* holding the source bytes, exactly when the source is an SVG; the warning
\* 'Source image is not an SVG - skipping SVG output' was emitted exactly when
\* the source is not an SVG and warn is not false.
C19_SvgPassThrough ==
    (fpc = "resolved" /\ EmptyBefore) =>
        /\ SvgPassedThrough
        /\ Emitted(NotSvgWarning) <=>
            (world.content.format # "svg"
                /\ ~(options.warn.set /\ options.warn.value = "false"))

\* a PNG source into an empty outputDir: no icon.svg, and the warning at the
\* custom sink
C19_Witness ==
    /\ fpc = "resolved" /\ EmptyBefore
    /\ world.content.format = "png"
    /\ files["icon.svg"].kind = "absent"
    /\ options.warn.set /\ options.warn.value = "custom"
    /\ Emitted(NotSvgWarning)

\* the files this call comes to write
Outputs ==
    {"icon-512.png", "icon-192.png", "apple-touch-icon.png", "favicon.ico"}
        \cup (IF ManifestEnabled THEN {"manifest.webmanifest"} ELSE {})
        \cup (IF world.content.format = "svg" THEN {"icon.svg"} ELSE {})

OverwriteOn == options.overwrite.set /\ options.overwrite.value

WarnOff == options.warn.set /\ options.warn.value = "false"

Skipping(n) == <<"File ", n, " already exists - skipping">>

Replacing(n) == <<"File ", n, " already exists - replacing">>

\* the path n holds what this call wrote to it
Written(n) == files[n].kind \in {"png", "ico", "manifest", "bytes"}

\* C20 as claimed: after a call has resolved, an output file that existed is
\* unchanged and its 'skipping' warning was emitted when overwrite is unset or
\* false, it is replaced and its 'replacing' warning was emitted when
\* overwrite is true, and a file that did not exist is written with neither
\* warning.
C20_AsClaimed ==
    fpc = "resolved" =>
        \A n \in Outputs :
            IF world.outputDir[n].kind = "old"
            THEN IF OverwriteOn
                 THEN Written(n) /\ Emitted(Replacing(n))
                 ELSE files[n] = world.outputDir[n] /\ Emitted(Skipping(n))
            ELSE Written(n) /\ ~Emitted(Skipping(n)) /\ ~Emitted(Replacing(n))

\* C20: after a call has resolved, an output file that existed is unchanged
\* when overwrite is unset or false, with its 'skipping' warning emitted unless
\* warn is false; it is replaced when overwrite is true, with its 'replacing'
\* warning emitted unless warn is false; a file that did not exist is written
\* with neither warning; and no file gets the warning of the other case.
C20_NoOverwriteByDefault ==
    fpc = "resolved" =>
        \A n \in Outputs :
            IF world.outputDir[n].kind = "old"
            THEN IF OverwriteOn
                 THEN /\ Written(n)
                      /\ Emitted(Replacing(n)) <=> ~WarnOff
                      /\ ~Emitted(Skipping(n))
                 ELSE /\ files[n] = world.outputDir[n]
                      /\ Emitted(Skipping(n)) <=> ~WarnOff
                      /\ ~Emitted(Replacing(n))
            ELSE Written(n) /\ ~Emitted(Skipping(n)) /\ ~Emitted(Replacing(n))

\* favicon.ico was there, overwrite is unset: it is as it was, and the default
\* sink got the warning; icon-512.png was not there and is written
C20_Witness ==
    /\ fpc = "resolved"
    /\ ~options.overwrite.set /\ ~options.warn.set
    /\ world.outputDir["favicon.ico"].kind = "old"
    /\ files["favicon.ico"].kind = "old"
    /\ Emitted(Skipping("favicon.ico"))
    /\ Written("icon-512.png")

\* what a resolved call leaves at a path other than the manifest's: told from
\* the source, the directory before the call and overwrite alone
ExpectedOther(n) ==
    IF world.outputDir[n].kind = "old" /\ ~OverwriteOn THEN world.outputDir[n]
    ELSE IF n = "icon.svg"
    THEN IF world.content.format = "svg"
         THEN [kind |-> "bytes", size |-> 0, doc |-> [icons |-> <<>>], src |-> world.content]
         ELSE world.outputDir[n]
    ELSE IF n = "favicon.ico"
    THEN [kind |-> "ico", size |-> 32, doc |-> [icons |-> <<>>], src |-> world.content]
    ELSE [kind |-> "png",
          size |-> IF n = "icon-512.png" THEN 512 ELSE IF n = "icon-192.png" THEN 192 ELSE 180,
          doc |-> [icons |-> <<>>], src |-> world.content]

NotManifestLink(link) == LinkFile(link) # "manifest.webmanifest"

\* the html that the same call returns with manifest: true
HtmlWithManifest ==
    generateHtml([basePath |-> BasePathUsed, hasSvg |-> world.content.format = "svg",
                  manifest |-> TRUE])

\* C21: a call that resolves with manifest: false has left the path
\* manifest.webmanifest as it was and returns no manifest link; its other
\* links are those of the html with manifest: true, in the same order; and
\* whatever the manifest option is, every other file is what the source, the
\* directory and overwrite make it.
C21_ManifestOff ==
    fpc = "resolved" =>
        /\ ~ManifestEnabled =>
            /\ files["manifest.webmanifest"] = world.outputDir["manifest.webmanifest"]
            /\ \A i \in 1..Len(Links) : NotManifestLink(Links[i])
            /\ Links = SelectSeq(Split(HtmlWithManifest, "\n"), NotManifestLink)
        /\ ManifestEnabled => html = HtmlWithManifest
        /\ \A n \in FileNames \ {"manifest.webmanifest"} : files[n] = ExpectedOther(n)

\* an SVG source with manifest: false into an empty directory: five files, no
\* manifest, three links
C21_Witness ==
    /\ fpc = "resolved" /\ EmptyBefore
    /\ options.manifest.set /\ ~options.manifest.value
    /\ files["manifest.webmanifest"].kind = "absent"
    /\ Written("icon.svg") /\ Written("favicon.ico")
    /\ Len(Links) = 3

NotSquareWarning ==
    <<"Source image is not square - it is HIGHLY recommended that input image is square">>

\* the messages createFavicon warns with
BareMessages ==
    {NotSvgWarning, NotSquareWarning}
        \cup {Skipping(n) : n \in FileNames} \cup {Replacing(n) : n \in FileNames}

\* the yellow '[warn]' marker
WarnMarker == "\\u001b[93m[warn]\\u001b[39m "

\* the call has gone past the warning for an image that is not square
PastSquareCheck == fpc \notin {"idle", "validate", "load", "metadata", "mkdir", "rejected"}

\* C22: with warn: false nothing is delivered to any sink; with a custom warn
\* every delivery is to that function and is a bare message; with the default
\* every delivery is to console.warn and is the marker followed by a message;
\* and the warning for a source that is not square is delivered unless warn
\* is false.
C22_WarningSink ==
    /\ WarnOff => warnings = <<>>
    /\ \A i \in 1..Len(warnings) :
        IF options.warn.set /\ options.warn.value = "custom"
        THEN warnings[i].sink = "custom" /\ warnings[i].text \in BareMessages
        ELSE /\ ~options.warn.set
             /\ warnings[i].sink = "console.warn"
             /\ Head(warnings[i].text) = WarnMarker
             /\ Tail(warnings[i].text) \in BareMessages
    /\ (PastSquareCheck /\ world.content.width # world.content.height) =>
        (Emitted(NotSquareWarning) <=> ~WarnOff)

\* a 300x100 SVG with the default sink: console.warn has got the marked
\* message
C22_Witness ==
    /\ fpc = "resolved"
    /\ ~options.warn.set
    /\ world.content = Image("svg", 300, 100)
    /\ \E i \in 1..Len(warnings) :
        /\ warnings[i].sink = "console.warn"
        /\ warnings[i].text = <<WarnMarker>> \o NotSquareWarning

\* sourceFile is an http(s) URL
UrlSource ==
    /\ options.given /\ options.sourceFile.kind = "string"
    /\ Len(options.sourceFile.name) > 0
    /\ options.sourceFile.name[1] \in {"http://", "https://"}

\* C23: once a URL source has been requested and the server has answered
\* with a status other than 200, the call is rejected with 'Failed fetching
\* image from "<url>": Server returned HTTP <status>', and the body of the
\* response has not become the source: no metadata was read from it and no
\* file was written.
C23_Non200Rejected ==
    (UrlSource /\ fpc \notin {"validate", "load"}
        /\ world.statusCode \in StatusCodes \ {200}) =>
        /\ fpc = "rejected"
        /\ error.message = "Failed fetching image from"
        /\ error.detail = options.sourceFile.name
                \o <<"Server returned HTTP ",
                     CASE world.statusCode = 301 -> "301"
                       [] world.statusCode = 404 -> "404"
                       [] world.statusCode = 500 -> "500">>
        /\ source = NoImage /\ image = NoImage
        /\ files = world.outputDir

\* a 404 answer whose body is a good 512x512 PNG: rejected, the body unused
C23_Witness ==
    /\ UrlSource /\ world.statusCode = 404
    /\ world.content = Image("png", 512, 512)
    /\ fpc = "rejected"
    /\ error.detail = options.sourceFile.name \o <<"Server returned HTTP ", "404">>
    /\ source = NoImage

(***************************************************************************)
(* Properties of the command line program                                  *)
(***************************************************************************)
HtmlPrinted == \E i \in 1..Len(stdout) : stdout[i].kind = "html"

HelpPrinted == \E i \in 1..Len(stdout) : stdout[i].kind = "help"

\* C24 as claimed: the program that has ended has printed the error on
\* stderr, no html, and exited with 1 if createFavicon rejected; it has
\* printed the help and exited with 1 if the source-file argument was missing;
\* in every other case it has printed the returned html and exited with 0.
C24_AsClaimed ==
    cliPc = "exited" =>
        IF fpc = "rejected"
        THEN exitCode = 1 /\ stderr = <<error>> /\ ~HtmlPrinted
        ELSE IF argv.outcome = "missing required args"
        THEN exitCode = 1 /\ HelpPrinted
        ELSE exitCode = 0 /\ stdout = <<[kind |-> "html", text |-> html]>>

\* C24: the program that has ended has printed the error on stderr, no html,
\* and exited with 1 if createFavicon rejected; printed the help and exited
\* with 1 if the source-file argument was missing; printed the error on
\* stderr, neither help nor html, and exited with 1 if parsing failed in
\* another way; printed the help and exited with 0 for --help; and printed
\* the returned html, alone on stdout, and exited with 0 if createFavicon
\* resolved.  Before the end nothing is printed.
C24_ExitStatus ==
    /\ cliPc \in {"parse", "await"} => stdout = <<>> /\ stderr = <<>> /\ exitCode = 0
    /\ cliPc = "exited" =>
        IF argv.outcome = "run"
        THEN IF fpc = "rejected"
             THEN exitCode = 1 /\ stderr = <<error>> /\ stdout = <<>>
             ELSE /\ fpc = "resolved"
                  /\ exitCode = 0 /\ stderr = <<>>
                  /\ stdout = <<[kind |-> "html", text |-> html]>>
        ELSE IF argv.outcome = "missing required args"
        THEN exitCode = 1 /\ HelpPrinted /\ ~HtmlPrinted /\ stderr = <<>>
        ELSE IF argv.outcome = "help"
        THEN exitCode = 0 /\ HelpPrinted /\ ~HtmlPrinted /\ stderr = <<>>
        ELSE exitCode = 1 /\ Len(stderr) = 1 /\ stdout = <<>>

\* the source file cannot be read: the error is on stderr, the status is 1
C24_Witness ==
    /\ cliPc = "exited"
    /\ argv.outcome = "run" /\ ~world.readable
    /\ fpc = "rejected"
    /\ Len(stderr) = 1 /\ stderr[1].message = "Could not read file"
    /\ stdout = <<>>
    /\ exitCode = 1

\* only sourceFile was given
DefaultOptions ==
    /\ options.given
    /\ ~options.warn.set /\ ~options.basePath.set
    /\ ~options.overwrite.set /\ ~options.manifest.set

\* the paths of outputDir that hold something
Present == {n \in FileNames : files[n].kind # "absent"}

\* C25: a call with default options that has resolved into an empty outputDir
\* has left there icon-512.png, icon-192.png and apple-touch-icon.png as PNG
\* files, favicon.ico, manifest.webmanifest, icon.svg if and only if the
\* source is an SVG, and nothing else.
C25_FileSet ==
    (fpc = "resolved" /\ EmptyBefore /\ DefaultOptions) =>
        /\ Present =
            {"icon-512.png", "icon-192.png", "apple-touch-icon.png", "favicon.ico",
             "manifest.webmanifest"}
            \cup (IF world.content.format = "svg" THEN {"icon.svg"} ELSE {})
        /\ \A n \in {"icon-512.png", "icon-192.png", "apple-touch-icon.png"} :
            files[n].kind = "png"
        /\ files["favicon.ico"].kind = "ico"
        /\ files["manifest.webmanifest"].kind = "manifest"

\* a 512x512 PNG with default options into an empty directory: five files
C25_Witness ==
    /\ fpc = "resolved" /\ EmptyBefore /\ DefaultOptions
    /\ world.content = Image("png", 512, 512)
    /\ Cardinality(Present) = 5
    /\ "icon.svg" \notin Present

====
